---- MODULE Spec2Model ----
(***************************************************************************)
(* Model of koto/spotify-backup:                                           *)
(*   add_spotify_tags.py  - builds a track index from an export document   *)
(*                          and reconciles the tags of .ogg files with it  *)
(*   generate_oggify.py   - flattens the export document into folders      *)
(*                                                                         *)
(* Python str values are sequences of one-character strings, so that       *)
(* slicing, concatenation, prefix and substring tests are computed.        *)
(* A dict is a function on the set of its keys; an optional value is a     *)
(* sequence of length 0 (None) or 1.                                       *)
(***************************************************************************)
EXTENDS Integers, Sequences, FiniteSets, TLC

VARIABLES doc, spotify, files, disk, track_cache, pc, fi, calls,
          jsonobj, args, things_to_export, pos, folders, kept, fpc

tagvars  == <<doc, spotify, files, disk, track_cache, pc, fi, calls>>
flatvars == <<jsonobj, args, things_to_export, pos, folders, kept, fpc>>
vars     == <<doc, spotify, files, disk, track_cache, pc, fi, calls,
              jsonobj, args, things_to_export, pos, folders, kept, fpc>>

\* ------------------------------------------------------------------ bounds
MaxDoc == 2
MaxFiles == 2
MaxThings == 2

\* ----------------------------------------------------------- str helpers
Min(a, b) == IF a < b THEN a ELSE b

\* s[0:n]
Take(s, n) == SubSeq(s, 1, Min(n, Len(s)))

Digit(d) == <<"0", "1", "2", "3", "4", "5", "6", "7", "8", "9">>[d + 1]

RECURSIVE Str(_)
\* str(n) for a non-negative int
Str(n) == IF n < 10 THEN <<Digit(n)>> ELSE Str(n \div 10) \o <<Digit(n % 10)>>

\* Python's None used as a dict key (the result of t.get('id') on a miss)
PyNone == <<"<None>">>

\* ------------------------------------------------- the export document
Id1 == <<"a", "1">>
Id2 == <<"a", "2">>

ImgBig == [url |-> <<"u", "6", "4", "0">>, width |-> 640, height |-> 640]
ImgMid == [url |-> <<"u", "3", "0", "0">>, width |-> 300, height |-> 300]

\* the simplified album object a playlist track carries (no track list)
PlainAlbum == [name |-> <<"L", "P">>,
               release_date |-> <<"2", "0", "2", "0", "-", "0", "5", "-", "1", "7">>,
               images |-> <<ImgBig, ImgMid>>]

\* a complete track object, as found under a playlist item's "track" field
FullTrack(id, name) ==
    [id |-> id, name |-> name, track_number |-> 3,
     artists |-> <<[name |-> <<"X">>], [name |-> <<"Y">>]>>,
     album |-> PlainAlbum]

\* a track entry of an album's track list: no album field of its own
AlbumItem(id, name) ==
    [id |-> id, name |-> name, track_number |-> 12,
     artists |-> <<[name |-> <<"Z">>]>>]

\* an album's track entry that has no identifier field
AlbumItemNoId == [name |-> <<"n">>, track_number |-> 1, artists |-> <<>>]

\* a track object that has no identifier field
TrackNoId == [name |-> <<"n">>, track_number |-> 1, artists |-> <<>>,
              album |-> PlainAlbum]

\* a full album object, with its track list
Album(items) ==
    [name |-> <<"E", "P">>, release_date |-> <<"1", "9", "9", "9">>,
     images |-> <<ImgBig>>, tracks |-> [items |-> items]]

\* The document is the sequence of its "track" and "album" fields, in
\* document order (the order a depth-first traversal meets them).
Nodes ==
    { [field |-> "track", value |-> FullTrack(Id1, <<"A">>)],
      [field |-> "track", value |-> FullTrack(Id2, <<"B">>)],
      [field |-> "track", value |-> AlbumItem(Id1, <<"C">>)],
      [field |-> "track", value |-> TrackNoId],
      [field |-> "album", value |-> PlainAlbum],
      [field |-> "album", value |-> Album(<<AlbumItem(Id1, <<"D">>), AlbumItem(Id1, <<"E">>)>>)],
      [field |-> "album", value |-> Album(<<AlbumItemNoId>>)] }

SeqsUpTo(S, n) == UNION { [1..k -> S] : k \in 0..n }

Documents == SeqsUpTo(Nodes, MaxDoc)

\* --------------------------------------------------------- the tag sets
TagNames == {"title", "artist", "album", "tracknumber", "year",
             "spotify_id", "metadata_block_picture"}

\* mutagen: a key without values is an absent key, ogg.get(k, []) is []
NoTags == [t \in TagNames |-> <<>>]

OldPicture == <<"o", "l", "d">>

FileNames == {"f0", "f1", "f2"}

\* the tags of the files on disk before the run: a file without spotify_id,
\* one with a stale title and no picture, one with a picture
InitialTags ==
    [f \in FileNames |->
        IF f = "f0" THEN NoTags
        ELSE IF f = "f1"
        THEN [NoTags EXCEPT !["spotify_id"] = <<Id1>>, !["title"] = <<<<"o", "l", "d">>>>]
        ELSE [NoTags EXCEPT !["spotify_id"] = <<Id2>>, !["title"] = <<<<"B">>>>,
                            !["metadata_block_picture"] = <<OldPicture>>]]

\* ------------------------------------------------- the remote service
\* what self.spotify.get(...) can do: raise, or return a payload
RemoteOutcomes ==
    { [kind |-> "raise", payload |-> [error |-> <<"4", "0", "4">>]],
      [kind |-> "payload", payload |-> FullTrack(Id2, <<"R">>)],
      [kind |-> "payload", payload |-> [error |-> <<"4", "0", "4">>]] }

\* what requests.get(info.image['url']) can do: a 200 response with the
\* image, a non-success response with an error body, or raise
ImgOutcomes == {"ok", "http_error", "raise"}

Content(img) == IF img = "ok" THEN <<"J", "P", "G">> ELSE <<"E", "R", "R">>
ContentType(img) == IF img = "ok" THEN <<"i", "m", "g">> ELSE <<"h", "t", "m", "l">>

\* ------------------------------------------------------- get_spotify_info
TracksPath(spotify_id) ==
    <<"t", "r", "a", "c", "k", "s", "/">> \o spotify_id \o <<"a", "a">>

\* the keys lines 63-71 read; a missing one raises KeyError
EntryComplete(entry) ==
    /\ {"album", "track_number", "artists", "name"} \subseteq DOMAIN entry
    /\ {"images", "name", "release_date"} \subseteq DOMAIN entry.album
    /\ \A i \in 1..Len(entry.artists) : "name" \in DOMAIN entry.artists[i]

SpotifyInfo(spotify_id, entry) ==
    [title |-> <<entry.name>>,
     artist |-> <<[i \in 1..Len(entry.artists) |-> entry.artists[i].name]>>,
     album |-> <<entry.album.name>>,
     tracknumber |-> <<Str(entry.track_number)>>,
     image |-> IF Len(entry.album.images) > 1 THEN <<entry.album.images[2]>>
               ELSE IF Len(entry.album.images) = 1 THEN <<entry.album.images[1]>>
               ELSE <<>>,
     year |-> <<Take(entry.album.release_date, 4)>>,
     spotify_id |-> <<spotify_id>>]

\* result: raised (an exception leaves the method), info (None or the
\* record), lookup (the path requested from the remote service, if any)
get_spotify_info(spotify_id, cache, remote) ==
    LET hit    == spotify_id \in DOMAIN cache
        asked  == ~hit /\ spotify
        entry  == IF hit THEN <<cache[spotify_id]>>
                  ELSE IF asked /\ remote.kind = "payload" THEN <<remote.payload>>
                  ELSE <<>>
        lookup == IF asked THEN <<TracksPath(spotify_id)>> ELSE <<>>
    IN  IF entry = <<>>
        THEN [raised |-> FALSE, info |-> <<>>, lookup |-> lookup]
        ELSE IF ~EntryComplete(entry[1])
        THEN [raised |-> TRUE, info |-> <<>>, lookup |-> lookup]
        ELSE [raised |-> FALSE, info |-> <<SpotifyInfo(spotify_id, entry[1])>>,
              lookup |-> lookup]

\* ------------------------------------------------------------ write_tags
\* vars(info), in the order SpotifyInfo.__init__ assigns the attributes
InfoVars == <<"title", "artist", "album", "tracknumber", "image", "year", "spotify_id">>

\* Picture.write() and base64.b64encode: opaque, injective encodings
PictureWrite(data, description, type, width, height, mime) ==
    <<"PIC">> \o Str(type) \o mime \o description \o Str(width) \o Str(height) \o data

B64Encode(bytes) == <<"b64(">> \o bytes \o <<")">>

FrontCover == 3

\* only artist is a list (line 70); every other field is a str
Arr(var, v) == IF var = "artist" THEN v ELSE <<v>>

\* ReconcileVar with the new values appended to the tag instead of replacing
\* it (VComment.append in place of __setitem__)
ReconcileVar_append(st, info, var, img) ==
    IF st.raised \/ info[var] = <<>> THEN st
    ELSE IF var = "image"
    THEN IF st.tags["metadata_block_picture"] = <<>>
         THEN IF img = "raise"
              THEN [st EXCEPT !.fetched = TRUE, !.raised = TRUE]
              ELSE LET image == info.image[1]
                       picture_data == PictureWrite(Content(img), <<"coverart">>, FrontCover,
                                                    image.width, image.height, ContentType(img))
                   IN [st EXCEPT !.fetched = TRUE, !.changed = TRUE,
                                 !.tags["metadata_block_picture"] = <<B64Encode(picture_data)>>]
         ELSE st
    ELSE LET arr == Arr(var, info[var][1])
         IN IF arr # st.tags[var]
            THEN [st EXCEPT !.changed = TRUE, !.tags[var] = st.tags[var] \o arr]
            ELSE st

\* ReconcileVar without the test of line 96: the picture is fetched whenever
\* the record has an image
ReconcileVar_refetch(st, info, var, img) ==
    IF st.raised \/ info[var] = <<>> THEN st
    ELSE IF var = "image"
    THEN IF img = "raise"
         THEN [st EXCEPT !.fetched = TRUE, !.raised = TRUE]
         ELSE LET image == info.image[1]
                  picture_data == PictureWrite(Content(img), <<"coverart">>, FrontCover,
                                               image.width, image.height, ContentType(img))
              IN [st EXCEPT !.fetched = TRUE, !.changed = TRUE,
                            !.tags["metadata_block_picture"] = <<B64Encode(picture_data)>>]
    ELSE LET arr == Arr(var, info[var][1])
         IN IF arr # st.tags[var]
            THEN [st EXCEPT !.changed = TRUE, !.tags[var] = arr]
            ELSE st

\* one iteration of the loop of lines 92-119; st = [tags, changed, fetched, raised]
ReconcileVar(st, info, var, img) ==
    IF st.raised \/ info[var] = <<>> THEN st
    ELSE IF var = "image"
    THEN IF st.tags["metadata_block_picture"] = <<>>
         THEN IF img = "raise"
              THEN [st EXCEPT !.fetched = TRUE, !.raised = TRUE]
              ELSE LET image == info.image[1]
                       picture_data == PictureWrite(Content(img), <<"coverart">>, FrontCover,
                                                    image.width, image.height, ContentType(img))
                   IN [st EXCEPT !.fetched = TRUE, !.changed = TRUE,
                                 !.tags["metadata_block_picture"] = <<B64Encode(picture_data)>>]
         ELSE st
    ELSE LET arr == Arr(var, info[var][1])
         IN IF arr # st.tags[var]
            THEN [st EXCEPT !.changed = TRUE, !.tags[var] = arr]
            ELSE st

RECURSIVE ReconcileFrom(_, _, _, _)
ReconcileFrom(st, info, k, img) ==
    IF k > Len(InfoVars) THEN st
    ELSE ReconcileFrom(ReconcileVar(st, info, InfoVars[k], img), info, k + 1, img)

\* lines 91-119
Reconcile(info, tags, img) ==
    ReconcileFrom([tags |-> tags, changed |-> FALSE, fetched |-> FALSE, raised |-> FALSE],
                  info, 1, img)

\* the whole of write_tags on the tag set ogg read from the file
write_tags(ogg, cache, remote, img) ==
    LET none == [result |-> "no_id", info |-> <<>>, lookup |-> <<>>, tags |-> ogg,
                 changed |-> FALSE, fetched |-> FALSE, saved |-> FALSE, raised |-> FALSE]
    IN  IF ogg["spotify_id"] = <<>> THEN none
        ELSE LET spotify_id == ogg["spotify_id"][1]
                 g == get_spotify_info(spotify_id, cache, remote)
             IN IF g.raised
                THEN [none EXCEPT !.result = "resolve_raised", !.lookup = g.lookup,
                                  !.raised = TRUE]
                ELSE IF g.info = <<>>
                THEN [none EXCEPT !.result = "absent", !.lookup = g.lookup]
                ELSE LET r == Reconcile(g.info[1], ogg, img)
                     IN [result |-> IF r.raised THEN "fetch_raised"
                                    ELSE IF r.changed THEN "saved" ELSE "unchanged",
                         info |-> g.info, lookup |-> g.lookup, tags |-> r.tags,
                         changed |-> r.changed, fetched |-> r.fetched,
                         saved |-> r.changed /\ ~r.raised, raised |-> r.raised]

\* ------------------------------------------------------------------ main
\* the key t.get('id') yields
IdOf(t) == IF "id" \in DOMAIN t THEN t.id ELSE PyNone

\* Put that keeps the record already stored under the key
Put_keepfirst(cache, k, v) == cache @@ (k :> v)

Put(cache, k, v) == (k :> v) @@ cache

\* "$..track where [id]"
IsTrackMatch(node) == node.field = "track" /\ "id" \in DOMAIN node.value

\* "$..album where [tracks]"
IsAlbumMatch(node) == node.field = "album" /\ "tracks" \in DOMAIN node.value

\* t = copy.deepcopy(track); t['album'] = match.value
Merged(track, album) == ("album" :> album) @@ track

RECURSIVE TrackLoop(_, _, _)
\* lines 155-156, from the k-th node on
TrackLoop(cache, d, k) ==
    IF k > Len(d) THEN cache
    ELSE TrackLoop(IF IsTrackMatch(d[k]) THEN Put(cache, d[k].value.id, d[k].value) ELSE cache,
                   d, k + 1)

RECURSIVE ItemLoop(_, _, _)
\* lines 160-163, from the j-th item on
ItemLoop(cache, album, j) ==
    IF j > Len(album.tracks.items) THEN cache
    ELSE LET t == Merged(album.tracks.items[j], album)
         IN ItemLoop(Put(cache, IdOf(t), t), album, j + 1)

RECURSIVE AlbumLoop(_, _, _)
\* lines 159-163, from the k-th node on
AlbumLoop(cache, d, k) ==
    IF k > Len(d) THEN cache
    ELSE AlbumLoop(IF IsAlbumMatch(d[k]) THEN ItemLoop(cache, d[k].value, 1) ELSE cache,
                   d, k + 1)

EmptyCache == [k \in {} |-> <<>>]

TagInit ==
    /\ doc \in Documents
    /\ spotify \in BOOLEAN
    /\ files \in SeqsUpTo(FileNames, MaxFiles)
    /\ disk = InitialTags
    /\ track_cache = EmptyCache
    /\ pc = "tracks"
    /\ fi = 1
    /\ calls = <<>>

FindTracks ==
    /\ pc = "tracks"
    /\ track_cache' = TrackLoop(track_cache, doc, 1)
    /\ pc' = "albums"
    /\ UNCHANGED <<doc, spotify, files, disk, fi, calls>>

FindAlbums ==
    /\ pc = "albums"
    /\ track_cache' = AlbumLoop(track_cache, doc, 1)
    /\ pc' = "files"
    /\ UNCHANGED <<doc, spotify, files, disk, fi, calls>>

\* one iteration of the loop of lines 167-168; an exception that leaves
\* write_tags leaves main as well. calls records each call: the file, its
\* tags when opened, what the remote service and the image download did
\* when they were asked, and the outcome.
WriteTags ==
    /\ pc = "files"
    /\ fi <= Len(files)
    /\ \E remote \in RemoteOutcomes, img \in ImgOutcomes :
         LET fname == files[fi]
             r == write_tags(disk[fname], track_cache, remote, img)
         IN /\ disk' = IF r.saved THEN [disk EXCEPT ![fname] = r.tags] ELSE disk
            /\ calls' = Append(calls, [fname |-> fname, before |-> disk[fname],
                                       remote |-> IF r.lookup # <<>> THEN remote.kind ELSE "unused",
                                       img |-> IF r.fetched THEN img ELSE "unused",
                                       r |-> r])
            /\ pc' = IF r.raised THEN "raised" ELSE "files"
            /\ fi' = IF r.raised THEN fi ELSE fi + 1
    /\ UNCHANGED <<doc, spotify, files, track_cache>>

Exit ==
    /\ pc = "files"
    /\ fi > Len(files)
    /\ pc' = "done"
    /\ UNCHANGED <<doc, spotify, files, disk, track_cache, fi, calls>>

\* ---------------------------------------------------- index: ghost views
RECURSIVE ItemOccs(_, _)
\* the entries of one album's track list, merged, from the j-th on
ItemOccs(album, j) ==
    IF j > Len(album.tracks.items) THEN <<>>
    ELSE <<Merged(album.tracks.items[j], album)>> \o ItemOccs(album, j + 1)

RECURSIVE Occs(_, _, _)
\* the matched track entries of the document from the k-th node on, in
\* document order; which = "track", "album" or "both"
Occs(d, k, which) ==
    IF k > Len(d) THEN <<>>
    ELSE (IF which # "album" /\ IsTrackMatch(d[k]) THEN <<d[k].value>>
          ELSE IF which # "track" /\ IsAlbumMatch(d[k]) THEN ItemOccs(d[k].value, 1)
          ELSE <<>>) \o Occs(d, k + 1, which)

Positions(occs, id) == { n \in 1..Len(occs) : IdOf(occs[n]) = id }

LastOf(occs, id) == occs[CHOOSE n \in Positions(occs, id) :
                             \A m \in Positions(occs, id) : m <= n]

Indexed == pc \in {"files", "done", "raised"}

Ids == {Id1, Id2}

\* C9 (as stated): an identifier matched more than once is indexed with the
\* record of its last occurrence in document order.
C9_DocumentOrder ==
    Indexed => \A id \in Ids :
        Positions(Occs(doc, 1, "both"), id) # {}
            => /\ id \in DOMAIN track_cache
               /\ track_cache[id] = LastOf(Occs(doc, 1, "both"), id)

\* C9 (amended): the write order is every single-track shape in document
\* order, then every album track-list entry in document order; an identifier
\* is indexed with the record of its last occurrence in that order.
C9_WriteOrder ==
    Indexed => \A id \in Ids :
        LET order == Occs(doc, 1, "track") \o Occs(doc, 1, "album")
        IN Positions(order, id) # {}
            => /\ id \in DOMAIN track_cache
               /\ track_cache[id] = LastOf(order, id)

C9_Witness ==
    /\ Indexed
    /\ Cardinality(Positions(Occs(doc, 1, "track"), Id1)) >= 1
    /\ Cardinality(Positions(Occs(doc, 1, "album"), Id1)) >= 2
    /\ doc[Len(doc)].field = "track"
    /\ track_cache[Id1].name = <<"E">>

\* C3 (as stated): a track entry without an identifier field is not in the
\* index under any key.
C3_NoIdNotIndexed ==
    Indexed => \A k \in DOMAIN track_cache : "id" \in DOMAIN track_cache[k]

\* -------------------------------------------------- write_tags: claims
Calls == 1..Len(calls)

Reconciled(c) == c.r.result \in {"saved", "unchanged"}

\* C1: a second application of the reconcile loop, to the tag set the first
\* one produced and with the same record, sets no tag, leaves changed false
\* and does not save.
C1_Idempotent ==
    \A i \in Calls, j \in Calls :
        (i < j /\ Reconciled(calls[i]) /\ calls[j].r.info = calls[i].r.info
               /\ calls[j].before = calls[i].r.tags)
            => /\ ~calls[j].r.changed
               /\ ~calls[j].r.saved
               /\ ~calls[j].r.raised
               /\ calls[j].r.tags = calls[j].before

C1_Witness ==
    /\ Len(calls) = 2
    /\ calls[1].fname = calls[2].fname
    /\ calls[1].r.result = "saved"
    /\ calls[1].r.fetched
    /\ calls[1].before["title"] # <<>>
    /\ calls[2].r.info = calls[1].r.info
    /\ calls[2].before = calls[1].r.tags
    /\ calls[2].r.result = "unchanged"

\* C2: with a non-empty cover-image tag in the file, no image is fetched
\* and the tag is not replaced, whatever the record's image.
C2_PictureKept ==
    \A i \in Calls :
        calls[i].before["metadata_block_picture"] # <<>>
            => /\ ~calls[i].r.fetched
               /\ calls[i].r.tags["metadata_block_picture"]
                      = calls[i].before["metadata_block_picture"]
               /\ (i = Len(calls) => disk[calls[i].fname]["metadata_block_picture"]
                                         = calls[i].before["metadata_block_picture"])

C2_Witness ==
    \E i \in Calls :
        /\ calls[i].before["metadata_block_picture"] # <<>>
        /\ calls[i].r.result = "saved"
        /\ calls[i].r.info[1].image # <<>>

\* C4 (as stated): get_spotify_info never raises; every failure is None.
C4_NeverRaises ==
    \A i \in Calls : calls[i].r.result # "resolve_raised"

FetchFailed(c) ==
    \/ c.r.lookup # <<>> /\ c.remote = "raise"
    \/ c.r.fetched /\ c.img \in {"raise", "http_error"}

\* C7 (as stated): when the cover-image fetch fails (raises or answers with
\* a non-success response), nothing is saved to the file.
C7_FailedFetchCommitsNothing ==
    \A i \in Calls :
        (calls[i].r.fetched /\ calls[i].img \in {"raise", "http_error"})
            => /\ ~calls[i].r.saved
               /\ (i = Len(calls) => disk[calls[i].fname] = calls[i].before)

\* C8 (as stated): a failed fetch ends the processing of that file only;
\* the run goes on to the later files and completes normally.
C8_RunContinues ==
    (calls # <<>> /\ FetchFailed(calls[Len(calls)]))
        => /\ pc # "raised"
           /\ fi = Len(calls) + 1

\* C10 (as stated): the remote lookup asks for the identifier verbatim.
C10_VerbatimLookup ==
    \A i \in Calls :
        calls[i].r.lookup # <<>>
            => calls[i].r.lookup[1]
                   = <<"t", "r", "a", "c", "k", "s", "/">> \o calls[i].before["spotify_id"][1]

FlatIdle ==
    /\ jsonobj = <<>>
    /\ args = <<>>
    /\ things_to_export = <<>>
    /\ pos = 0
    /\ folders = <<>>
    /\ kept = <<>>
    /\ fpc = "idle"

Init == TagInit /\ FlatIdle

Next ==
    \/ FindTracks /\ UNCHANGED flatvars
    \/ FindAlbums /\ UNCHANGED flatvars
    \/ WriteTags /\ UNCHANGED flatvars
    \/ Exit /\ UNCHANGED flatvars

Spec == Init /\ [][Next]_vars

\* ================================================== generate_oggify.py
TrackPrefix == <<"s", "p", "o", "t", "i", "f", "y", ":", "t", "r", "a", "c", "k", ":">>

TrackUri(id) == TrackPrefix \o id

LocalUri == <<"s", "p", "o", "t", "i", "f", "y", ":", "l", "o", "c", "a", "l", ":", "x">>

Me == <<"m", "e">>
You == <<"y", "o", "u">>

\* playlists of the export: name, id, owner (optional), tracks; a track
\* list entry holds the uri itself or wraps the track one level deeper
Playlists ==
    { [name |-> <<"R", "o", "c", "k">>, id |-> <<"p", "1">>, owner |-> [id |-> Me],
       tracks |-> <<[track |-> [uri |-> TrackUri(Id1)]], [track |-> [uri |-> LocalUri]]>>],
      [name |-> <<"p", "o", "p">>, id |-> <<"p", "2">>, owner |-> [id |-> You],
       tracks |-> <<[uri |-> TrackUri(Id2)]>>],
      [name |-> <<"m", "i", "x">>, id |-> <<"p", "3">>,
       tracks |-> <<[track |-> [uri |-> TrackUri(Id1)]], [track |-> [uri |-> TrackUri(Id1)]]>>],
      [name |-> <<"l", "o", "c">>, id |-> <<"p", "4">>, owner |-> [id |-> Me],
       tracks |-> <<[track |-> [uri |-> LocalUri]]>>] }

\* saved albums of the export: the album object sits under "album"
SavedAlbums ==
    { [album |-> [name |-> <<"E", "P">>, release_date |-> <<"1", "9", "9", "9", "-", "0", "1">>,
                  artists |-> <<[name |-> <<"X">>], [name |-> <<"Y">>]>>,
                  tracks |-> [items |-> <<[uri |-> TrackUri(Id1)], [uri |-> TrackUri(Id2)]>>]]],
      [album |-> [name |-> <<"r", "o">>, release_date |-> <<"2", "0", "2", "0">>,
                  artists |-> <<[name |-> <<"Z">>]>>,
                  tracks |-> [items |-> <<>>]]] }

\* argparse results: filter and owner are None or a str
Filters == {<<>>, <<<<"r", "o">>>>, <<<<"p", "2">>>>}
Owners == {<<>>, <<Me>>}

\* "if x:" on an optional str
Truthy(opt) == opt # <<>> /\ opt[1] # <<>>

LowerChar(c) ==
    IF c = "R" THEN "r" ELSE IF c = "E" THEN "e" ELSE IF c = "P" THEN "p"
    ELSE IF c = "X" THEN "x" ELSE IF c = "Y" THEN "y" ELSE IF c = "Z" THEN "z" ELSE c

\* str.lower()
Lower(s) == [i \in 1..Len(s) |-> LowerChar(s[i])]

\* "sub in s"
Contains(sub, s) ==
    \E i \in 0..(Len(s) - Len(sub)) : SubSeq(s, i + 1, i + Len(sub)) = sub

\* s.startswith(p)
StartsWith(s, p) == Len(s) >= Len(p) /\ SubSeq(s, 1, Len(p)) = p

RECURSIVE Join(_, _)
\* sep.join(names)
Join(sep, names) ==
    IF names = <<>> THEN <<>>
    ELSE IF Len(names) = 1 THEN names[1]
    ELSE names[1] \o sep \o Join(sep, Tail(names))

IsAlbum(p) == "album" \in DOMAIN p

\* lines 87-90
FolderName(p) ==
    IF IsAlbum(p)
    THEN Join(<<",", " ">>, [i \in 1..Len(p.album.artists) |-> p.album.artists[i].name])
         \o <<" ", "-", " ">> \o p.album.name
         \o <<" ", "(">> \o Take(p.album.release_date, 4) \o <<")">>
    ELSE p.name

\* lines 92-95: the candidate is skipped by the name/id filter
FilterSkips(p) ==
    /\ Truthy(args.filter)
    /\ ~Contains(Lower(args.filter[1]), Lower(FolderName(p)))
    /\ ("id" \notin DOMAIN p \/ p.id # args.filter[1])

\* OwnerSkips with the comparison of line 97 inverted
OwnerSkips_inverted(p) ==
    /\ Truthy(args.owner)
    /\ "owner" \in DOMAIN p
    /\ p.owner.id = args.owner[1]

\* lines 96-99: the candidate is skipped by the owner filter
OwnerSkips(p) ==
    /\ Truthy(args.owner)
    /\ "owner" \in DOMAIN p
    /\ p.owner.id # args.owner[1]

\* Folder.add_song
add_song(folder, spotify_id) ==
    IF ~StartsWith(spotify_id, TrackPrefix) THEN folder
    ELSE [folder EXCEPT !.songs = Append(@, spotify_id)]

\* line 106: the uri of a track list entry
UriOf(t) == IF "uri" \in DOMAIN t THEN t.uri ELSE t.track.uri

RECURSIVE AddSongs(_, _, _)
\* lines 105-106, from the j-th entry on
AddSongs(folder, tracks, j) ==
    IF j > Len(tracks) THEN folder
    ELSE AddSongs(add_song(folder, UriOf(tracks[j])), tracks, j + 1)

\* line 104
TracksOf(p) == IF IsAlbum(p) THEN p.album.tracks.items ELSE p.tracks

\* FolderKept without the test of line 108
FolderKept_always(folder) == TRUE

\* line 108
FolderKept(folder) == Len(folder.songs) > 0

TagIdle ==
    /\ doc = <<>>
    /\ spotify = FALSE
    /\ files = <<>>
    /\ disk = [f \in FileNames |-> NoTags]
    /\ track_cache = EmptyCache
    /\ pc = "idle"
    /\ fi = 1
    /\ calls = <<>>

FlatInit ==
    /\ jsonobj \in [playlists : SeqsUpTo(Playlists, MaxThings),
                    albums : SeqsUpTo(SavedAlbums, MaxThings)]
    /\ args \in [playlists : BOOLEAN, albums : BOOLEAN, filter : Filters, owner : Owners]
    /\ things_to_export = <<>>
    /\ pos = 1
    /\ folders = <<>>
    /\ kept = <<>>
    /\ fpc = "select"

\* lines 77-83
SelectThings ==
    /\ fpc = "select"
    /\ things_to_export' = (IF args.playlists THEN jsonobj.playlists ELSE <<>>)
                           \o (IF args.albums THEN jsonobj.albums ELSE <<>>)
    /\ fpc' = "loop"
    /\ UNCHANGED <<jsonobj, args, pos, folders, kept>>

\* one iteration of the loop of lines 85-109; kept records which candidate
\* each folder was made from
FlattenOne ==
    /\ fpc = "loop"
    /\ pos <= Len(things_to_export)
    /\ LET p == things_to_export[pos]
           folder == AddSongs([name |-> FolderName(p), songs |-> <<>>], TracksOf(p), 1)
       IN IF FilterSkips(p) \/ OwnerSkips(p) \/ ~FolderKept(folder)
          THEN UNCHANGED <<folders, kept>>
          ELSE /\ folders' = Append(folders, folder)
               /\ kept' = Append(kept, pos)
    /\ pos' = pos + 1
    /\ UNCHANGED <<jsonobj, args, things_to_export, fpc>>

\* lines 111-114: sys.exit(1)
NothingToExport ==
    /\ fpc = "loop"
    /\ pos > Len(things_to_export)
    /\ Len(folders) = 0
    /\ fpc' = "exit1"
    /\ UNCHANGED <<jsonobj, args, things_to_export, pos, folders, kept>>

\* lines 115-116
Exporting ==
    /\ fpc = "loop"
    /\ pos > Len(things_to_export)
    /\ Len(folders) # 0
    /\ fpc' = "exporting"
    /\ UNCHANGED <<jsonobj, args, things_to_export, pos, folders, kept>>

InitFlatten == FlatInit /\ TagIdle

NextFlatten ==
    \/ SelectThings /\ UNCHANGED tagvars
    \/ FlattenOne /\ UNCHANGED tagvars
    \/ NothingToExport /\ UNCHANGED tagvars
    \/ Exporting /\ UNCHANGED tagvars

SpecFlatten == InitFlatten /\ [][NextFlatten]_vars

Flattened == fpc \in {"exit1", "exporting"}

Kept == { kept[n] : n \in 1..Len(kept) }

Seen == 1..(pos - 1)

\* C5 (as stated): with an owner filter, every collection of the result
\* comes from a candidate whose owner is the filter; a candidate without
\* an owner field is skipped.
C5_OnlyOwned ==
    Truthy(args.owner) =>
        \A i \in Kept : /\ "owner" \in DOMAIN things_to_export[i]
                        /\ things_to_export[i].owner.id = args.owner[1]

\* C5 (amended): with an owner filter, every candidate that has an owner
\* field whose identifier differs from the filter is skipped, so every
\* collection of the result that comes from a candidate with an owner field
\* has the filter as owner.
C5_MismatchSkipped ==
    Truthy(args.owner) =>
        \A i \in Seen :
            ("owner" \in DOMAIN things_to_export[i]
               /\ things_to_export[i].owner.id # args.owner[1])
                => i \notin Kept

C5_Witness ==
    /\ Flattened
    /\ Truthy(args.owner)
    /\ ~Truthy(args.filter)
    /\ Len(kept) = 1
    /\ "owner" \in DOMAIN things_to_export[kept[1]]
    /\ things_to_export[kept[1]].owner.id = args.owner[1]
    /\ \E i \in Seen : /\ "owner" \in DOMAIN things_to_export[i]
                       /\ things_to_export[i].owner.id # args.owner[1]
                       /\ \E j \in 1..Len(TracksOf(things_to_export[i])) :
                              StartsWith(UriOf(TracksOf(things_to_export[i])[j]), TrackPrefix)

\* the track identifiers a candidate yields
Collectable(p) ==
    { j \in 1..Len(TracksOf(p)) : StartsWith(UriOf(TracksOf(p)[j]), TrackPrefix) }

Selected ==
    (IF args.playlists THEN jsonobj.playlists ELSE <<>>)
        \o (IF args.albums THEN jsonobj.albums ELSE <<>>)

\* C6: with no name/id filter and no owner filter, the result holds every
\* candidate of the selected sets (playlists, then albums) that yields an
\* identifier, once each and in input order, and no candidate that yields
\* none.
C6_UnfilteredAll ==
    (Flattened /\ ~Truthy(args.filter) /\ ~Truthy(args.owner)) =>
        /\ Len(folders) = Len(kept)
        /\ Kept = { i \in 1..Len(Selected) : Collectable(Selected[i]) # {} }
        /\ \A n \in 1..Len(kept) :
              /\ n > 1 => kept[n - 1] < kept[n]
              /\ folders[n].name = FolderName(Selected[kept[n]])
              /\ Len(folders[n].songs) = Cardinality(Collectable(Selected[kept[n]]))

C6_Witness ==
    /\ Flattened
    /\ ~Truthy(args.filter) /\ ~Truthy(args.owner)
    /\ \E i \in Kept : IsAlbum(things_to_export[i])
    /\ \E i \in Kept : ~IsAlbum(things_to_export[i])
    /\ \E i \in 1..Len(things_to_export) :
          /\ i \notin Kept
          /\ TracksOf(things_to_export[i]) # <<>>

====
